---- MODULE Spec2Model ----
(***************************************************************************)
(* A model of the auth-irma bridge: the attribute mapper and the response  *)
(* cross-check (config.rs), the session-result classification (irma.rs),   *)
(* the continuation codec and the request handlers (main.rs).              *)
(*                                                                         *)
(* A Rust String is a sequence of Unicode code points; its bytes are its   *)
(* UTF-8 encoding.  Option and Result are tagged records.                  *)
(***************************************************************************)
EXTENDS Integers, Sequences, FiniteSets, TLC

VARIABLES
    config,     \* the attribute mapping of the managed Config (read-only)
    call,       \* the last call of a pure function: its inputs and its result
    sessions,   \* the sessions of the disclosure server, indexed by token
    handlers    \* the request handlers started so far, running or finished

vars == <<config, call, sessions, handlers>>

-----------------------------------------------------------------------------
(* Bounds of the model. *)

MaxAttrs == 2       \* longest requested attribute list
MaxGroups == 2      \* most disclosed groups in a session result
MaxGroupSize == 2   \* most attributes in one disclosed group
MaxStrLen == 4      \* longest continuation or delivery URL of the codec calls
MaxHandlers == 3    \* most requests the bridge receives in one behaviour

-----------------------------------------------------------------------------
(* Option<T> and Result<T, E>. *)

None == [some |-> FALSE]
Some(v) == [some |-> TRUE, v |-> v]

Ok(v) == [ok |-> TRUE, val |-> v]
Err(e) == [ok |-> FALSE, err |-> e]

SeqsUpTo(S, n) == UNION {[1..k -> S] : k \in 0..n}

-----------------------------------------------------------------------------
(* Logical attribute names (Strings, as code points) and the identifiers   *)
(* of the disclosure server.                                               *)

Email == <<101>>        \* "e"
Phone == <<112>>        \* "p"
Unmapped == <<117>>     \* "u": a name no configuration maps

Names == {Email, Phone, Unmapped}

IdEmail == "pbdf.pbdf.email.email"
IdEmailAlt == "pbdf.sidn-pbdf.email.email"
IdPhone == "pbdf.pbdf.mobilenumber.mobilenumber"

(* AttributeMapping = HashMap<String, Vec<String>>: the configurations the *)
(* model starts from.  The second maps a name to an empty Vec, which the   *)
(* deserialisation of RawConfig accepts.                                   *)
Configs ==
    { [n \in {Email, Phone} |->
          IF n = Email THEN <<IdEmail, IdEmailAlt>> ELSE <<IdPhone>>],
      [n \in {Email, Phone} |->
          IF n = Email THEN <<IdEmailAlt>> ELSE <<>>] }

-----------------------------------------------------------------------------
(* config::Error and irma::Error values. *)

UnknownAttribute(a) == [kind |-> "UnknownAttribute", name |-> a]
NotMatching(d) == [kind |-> "NotMatching", desc |-> d]
InvalidResponse(d) == [kind |-> "InvalidResponse", desc |-> d]

IrmaIncomplete == [kind |-> "Incomplete"]
IrmaCancelled == [kind |-> "Cancelled"]
IrmaTimeout == [kind |-> "Timeout"]
IrmaInvalid == [kind |-> "Invalid"]

-----------------------------------------------------------------------------
(* Config::map_attributes *)

Simple(id) == [Simple |-> id]

\* the inner loop: one single-attribute conjunction per configured identifier
DisjunctionReversed(ids) ==
    [j \in 1..Len(ids) |-> <<Simple(ids[Len(ids) + 1 - j])>>]

Disjunction(ids) == [j \in 1..Len(ids) |-> <<Simple(ids[j])>>]

RECURSIVE MapAttributesLoop(_, _, _, _)
MapAttributesLoop(cfg, attributes, i, result) ==
    IF i > Len(attributes) THEN Ok(result)
    ELSE IF attributes[i] \notin DOMAIN cfg
         THEN Err(UnknownAttribute(attributes[i]))
         ELSE MapAttributesLoop(cfg, attributes, i + 1,
                                Append(result, Disjunction(cfg[attributes[i]])))

\* a loop that skips an unmapped name instead of failing
RECURSIVE MapAttributesSkipping(_, _, _, _)
MapAttributesSkipping(cfg, attributes, i, result) ==
    IF i > Len(attributes) THEN Ok(result)
    ELSE IF attributes[i] \notin DOMAIN cfg
         THEN MapAttributesSkipping(cfg, attributes, i + 1, result)
         ELSE MapAttributesSkipping(cfg, attributes, i + 1,
                                Append(result, Disjunction(cfg[attributes[i]])))

MapAttributesLenient(cfg, attributes) ==
    MapAttributesSkipping(cfg, attributes, 1, <<>>)

map_attributes(cfg, attributes) == MapAttributesLoop(cfg, attributes, 1, <<>>)

-----------------------------------------------------------------------------
(* impl TryFrom<RawIrmaResult> for IrmaResult *)

SessionStatus == {"Initialized", "Connected", "Cancelled", "Done", "Timeout"}
ProofStatus == {"Valid", "Invalid", "InvalidTimestamp", "UnmatchedRequest",
                "MissingAttributes", "Expired"}

\* a classification that looks at the proof status first
TryFromProofFirst(value) ==
    IF value.proof_status = "Valid"
    THEN IF value.status = "Done" THEN Ok([disclosed |-> value.disclosed])
         ELSE IF value.status = "Cancelled" THEN Err(IrmaCancelled)
         ELSE IF value.status = "Timeout" THEN Err(IrmaTimeout)
         ELSE Err(IrmaIncomplete)
    ELSE Err(IrmaInvalid)

\* a classification that accepts a finished session whatever its proof status
TryFromAnyProof(value) ==
    CASE value.status = "Cancelled" -> Err(IrmaCancelled)
      [] value.status = "Timeout" -> Err(IrmaTimeout)
      [] value.status = "Done" -> Ok([disclosed |-> value.disclosed])
      [] OTHER -> Err(IrmaIncomplete)

try_from(value) ==
    CASE value.status = "Cancelled" -> Err(IrmaCancelled)
      [] value.status = "Timeout" -> Err(IrmaTimeout)
      [] value.status = "Done" ->
            IF value.proof_status = "Valid"
            THEN Ok([disclosed |-> value.disclosed])
            ELSE Err(IrmaInvalid)
      [] OTHER -> Err(IrmaIncomplete)

-----------------------------------------------------------------------------
(* Config::map_response *)

EmptyMap == [n \in {} |-> ""]

\* an insert into a map that is created anew in every iteration
InsertFresh(m, k, v) == [n \in {k} |-> v]

\* HashMap::insert: a later insert of the same key replaces the value
Insert(m, k, v) == [n \in DOMAIN m \cup {k} |-> IF n = k THEN v ELSE m[n]]

UnwrapOr(opt, default) == IF opt.some THEN opt.v ELSE default

\* slice::contains
Contains(s, x) == \E j \in 1..Len(s) : s[j] = x

\* a membership test against every configured identifier, of any name
ContainsAnywhere(cfg, name, id) == \E n \in DOMAIN cfg : Contains(cfg[n], id)

Allowed(cfg, name, id) == Contains(cfg[name], id)

\* a loop that takes the first attribute of a group of any size
RECURSIVE MapResponseFirstOfGroup(_, _, _, _, _)
MapResponseFirstOfGroup(cfg, attributes, response, i, result) ==
    IF i > Len(attributes) THEN Ok(result)
    ELSE IF Len(response.disclosed[i]) = 0
         THEN Err(InvalidResponse(
                  "Incorrect number of attributes in inner conjunction"))
    ELSE IF attributes[i] \notin DOMAIN cfg
         THEN Err(UnknownAttribute(attributes[i]))
    ELSE IF ~Contains(cfg[attributes[i]], response.disclosed[i][1].identifier)
         THEN Err(InvalidResponse("Incorrect attribute in inner conjunction"))
    ELSE MapResponseFirstOfGroup(cfg, attributes, response, i + 1,
             Insert(result, attributes[i],
                    UnwrapOr(response.disclosed[i][1].raw_value, "")))

\* a loop that looks the name up before it counts the group
RECURSIVE MapResponseLookupFirst(_, _, _, _, _)
MapResponseLookupFirst(cfg, attributes, response, i, result) ==
    IF i > Len(attributes) THEN Ok(result)
    ELSE IF attributes[i] \notin DOMAIN cfg
         THEN Err(UnknownAttribute(attributes[i]))
    ELSE IF Len(response.disclosed[i]) # 1
         THEN Err(InvalidResponse(
                  "Incorrect number of attributes in inner conjunction"))
    ELSE IF ~Contains(cfg[attributes[i]], response.disclosed[i][1].identifier)
         THEN Err(InvalidResponse("Incorrect attribute in inner conjunction"))
    ELSE MapResponseLookupFirst(cfg, attributes, response, i + 1,
             Insert(result, attributes[i],
                    UnwrapOr(response.disclosed[i][1].raw_value, "")))

RECURSIVE MapResponseLoop(_, _, _, _, _)
MapResponseLoop(cfg, attributes, response, i, result) ==
    IF i > Len(attributes) THEN Ok(result)
    ELSE IF Len(response.disclosed[i]) # 1
         THEN Err(InvalidResponse(
                  "Incorrect number of attributes in inner conjunction"))
    ELSE IF attributes[i] \notin DOMAIN cfg
         THEN Err(UnknownAttribute(attributes[i]))
    ELSE IF ~Allowed(cfg, attributes[i], response.disclosed[i][1].identifier)
         THEN Err(InvalidResponse("Incorrect attribute in inner conjunction"))
    ELSE MapResponseLoop(cfg, attributes, response, i + 1,
             Insert(result, attributes[i],
                    UnwrapOr(response.disclosed[i][1].raw_value, "")))

\* a count check that only rejects a response with too few groups
MapResponseShortOnly(cfg, attributes, response) ==
    IF Len(attributes) > Len(response.disclosed)
    THEN Err(NotMatching("mismatch between request and response"))
    ELSE MapResponseLoop(cfg, attributes, response, 1, EmptyMap)

map_response(cfg, attributes, response) ==
    IF Len(attributes) # Len(response.disclosed)
    THEN Err(NotMatching("mismatch between request and response"))
    ELSE MapResponseLoop(cfg, attributes, response, 1, EmptyMap)

-----------------------------------------------------------------------------
(* The continuation codec: what base64::encode_config / decode_config with *)
(* URL_SAFE, String::as_bytes / std::str::from_utf8 and serde_json::to_vec *)
(* / from_slice::<Vec<String>> do, on bytes.                               *)

DecodeError == [kind |-> "Decode"]
Utf8Error == [kind |-> "Utf"]
JsonError == [kind |-> "Json"]

\* String::as_bytes: the UTF-8 encoding of one code point
Utf8EncodeChar(c) ==
    IF c < 128 THEN <<c>>
    ELSE IF c < 2048 THEN <<192 + (c \div 64), 128 + (c % 64)>>
    ELSE IF c < 65536
         THEN <<224 + (c \div 4096), 128 + ((c \div 64) % 64), 128 + (c % 64)>>
    ELSE <<240 + (c \div 262144), 128 + ((c \div 4096) % 64),
           128 + ((c \div 64) % 64), 128 + (c % 64)>>

RECURSIVE Utf8Encode(_)
Utf8Encode(str) ==
    IF str = <<>> THEN <<>>
    ELSE Utf8EncodeChar(Head(str)) \o Utf8Encode(Tail(str))

IsCont(b, i) == i <= Len(b) /\ b[i] >= 128 /\ b[i] <= 191

\* std::str::from_utf8: rejects stray and missing continuation bytes,
\* overlong forms, surrogates and code points above U+10FFFF
RECURSIVE FromUtf8Loop(_, _, _)
FromUtf8Loop(b, i, acc) ==
    IF i > Len(b) THEN Ok(acc)
    ELSE IF b[i] < 128 THEN FromUtf8Loop(b, i + 1, Append(acc, b[i]))
    ELSE IF b[i] >= 194 /\ b[i] <= 223 /\ IsCont(b, i + 1)
         THEN FromUtf8Loop(b, i + 2,
                  Append(acc, (b[i] - 192) * 64 + (b[i + 1] - 128)))
    ELSE IF b[i] >= 224 /\ b[i] <= 239 /\ IsCont(b, i + 1) /\ IsCont(b, i + 2)
         THEN LET c == (b[i] - 224) * 4096 + (b[i + 1] - 128) * 64
                       + (b[i + 2] - 128)
              IN  IF c < 2048 \/ (c >= 55296 /\ c <= 57343)
                  THEN Err(Utf8Error)
                  ELSE FromUtf8Loop(b, i + 3, Append(acc, c))
    ELSE IF b[i] >= 240 /\ b[i] <= 244 /\ IsCont(b, i + 1) /\ IsCont(b, i + 2)
            /\ IsCont(b, i + 3)
         THEN LET c == (b[i] - 240) * 262144 + (b[i + 1] - 128) * 4096
                       + (b[i + 2] - 128) * 64 + (b[i + 3] - 128)
              IN  IF c < 65536 \/ c > 1114111
                  THEN Err(Utf8Error)
                  ELSE FromUtf8Loop(b, i + 4, Append(acc, c))
    ELSE Err(Utf8Error)

from_utf8(b) == FromUtf8Loop(b, 1, <<>>)

\* the alphabet of base64::STANDARD: '+' and '/' for 62 and 63
B64CharStandard(v) ==
    IF v < 26 THEN 65 + v
    ELSE IF v < 52 THEN 97 + (v - 26)
    ELSE IF v < 62 THEN 48 + (v - 52)
    ELSE IF v = 62 THEN 43 ELSE 47

\* the alphabet of base64::URL_SAFE: A-Z a-z 0-9 '-' '_'
B64Char(v) ==
    IF v < 26 THEN 65 + v
    ELSE IF v < 52 THEN 97 + (v - 26)
    ELSE IF v < 62 THEN 48 + (v - 52)
    ELSE IF v = 62 THEN 45 ELSE 95

\* the decode table of URL_SAFE; -1 for a byte outside the alphabet
B64Val(c) ==
    IF c >= 65 /\ c <= 90 THEN c - 65
    ELSE IF c >= 97 /\ c <= 122 THEN c - 97 + 26
    ELSE IF c >= 48 /\ c <= 57 THEN c - 48 + 52
    ELSE IF c = 45 THEN 62
    ELSE IF c = 95 THEN 63
    ELSE -1

\* base64::encode_config(bytes, URL_SAFE): three bytes to four symbols,
\* the last quad padded with '='
RECURSIVE Base64Encode(_)
Base64Encode(b) ==
    IF Len(b) = 0 THEN <<>>
    ELSE IF Len(b) = 1
         THEN <<B64Char(b[1] \div 4), B64Char((b[1] % 4) * 16), 61, 61>>
    ELSE IF Len(b) = 2
         THEN <<B64Char(b[1] \div 4),
                B64Char((b[1] % 4) * 16 + (b[2] \div 16)),
                B64Char((b[2] % 16) * 4), 61>>
    ELSE <<B64Char(b[1] \div 4),
           B64Char((b[1] % 4) * 16 + (b[2] \div 16)),
           B64Char((b[2] % 16) * 4 + (b[3] \div 64)),
           B64Char(b[3] % 64)>>
         \o Base64Encode(SubSeq(b, 4, Len(b)))

\* number of '=' at the end of the input
RECURSIVE TrailingPads(_)
TrailingPads(seg) ==
    IF Len(seg) > 0 /\ seg[Len(seg)] = 61
    THEN 1 + TrailingPads(SubSeq(seg, 1, Len(seg) - 1))
    ELSE 0

\* the symbols of whole quads and of the last, partial quad, as bytes
RECURSIVE Base64Quads(_)
Base64Quads(v) ==
    IF Len(v) = 0 THEN Ok(<<>>)
    ELSE IF Len(v) = 1 THEN Err(DecodeError)
    ELSE IF Len(v) = 2
         THEN IF v[2] % 16 # 0 THEN Err(DecodeError)
              ELSE Ok(<<v[1] * 4 + (v[2] \div 16)>>)
    ELSE IF Len(v) = 3
         THEN IF v[3] % 4 # 0 THEN Err(DecodeError)
              ELSE Ok(<<v[1] * 4 + (v[2] \div 16),
                        (v[2] % 16) * 16 + (v[3] \div 4)>>)
    ELSE LET rest == Base64Quads(SubSeq(v, 5, Len(v)))
         IN  IF ~rest.ok THEN rest
             ELSE Ok(<<v[1] * 4 + (v[2] \div 16),
                       (v[2] % 16) * 16 + (v[3] \div 4),
                       (v[3] % 4) * 64 + v[4]>> \o rest.val)

\* base64::decode_config(segment, URL_SAFE): padding only at the end and only
\* in the last two places of a quad, every other byte in the alphabet, no
\* single left-over symbol, no set bits that would be discarded
base64_decode(seg) ==
    LET pads == TrailingPads(seg)
        n == Len(seg) - pads
        v == [i \in 1..n |-> B64Val(seg[i])]
    IN  IF \E i \in 1..n : v[i] = -1 THEN Err(DecodeError)
        ELSE IF \E i \in (n + 1)..Len(seg) : (i - 1) % 4 < 2
             THEN Err(DecodeError)
        ELSE Base64Quads(v)

\* serde_json's string escapes
HexChar(v) == IF v < 10 THEN 48 + v ELSE 87 + v

JsonEscapeChar(c) ==
    IF c = 34 THEN <<92, 34>>
    ELSE IF c = 92 THEN <<92, 92>>
    ELSE IF c = 8 THEN <<92, 98>>
    ELSE IF c = 9 THEN <<92, 116>>
    ELSE IF c = 10 THEN <<92, 110>>
    ELSE IF c = 12 THEN <<92, 102>>
    ELSE IF c = 13 THEN <<92, 114>>
    ELSE IF c < 32 THEN <<92, 117, 48, 48, HexChar(c \div 16), HexChar(c % 16)>>
    ELSE Utf8EncodeChar(c)

RECURSIVE JsonEscape(_)
JsonEscape(str) ==
    IF str = <<>> THEN <<>>
    ELSE JsonEscapeChar(Head(str)) \o JsonEscape(Tail(str))

JsonString(str) == <<34>> \o JsonEscape(str) \o <<34>>

RECURSIVE JsonElements(_)
JsonElements(list) ==
    IF Len(list) = 0 THEN <<>>
    ELSE IF Len(list) = 1 THEN JsonString(list[1])
    ELSE JsonString(list[1]) \o <<44>> \o JsonElements(Tail(list))

\* serde_json::to_vec(&Vec<String>)
json_to_vec(list) == <<91>> \o JsonElements(list) \o <<93>>

HexVal(c) ==
    IF c >= 48 /\ c <= 57 THEN c - 48
    ELSE IF c >= 65 /\ c <= 70 THEN c - 55
    ELSE IF c >= 97 /\ c <= 102 THEN c - 87
    ELSE -1

\* four hex digits at b[i..i+3]; -1 when they are not there
Hex4(b, i) ==
    IF i + 3 > Len(b) \/ \E k \in 0..3 : HexVal(b[i + k]) = -1 THEN -1
    ELSE HexVal(b[i]) * 4096 + HexVal(b[i + 1]) * 256
         + HexVal(b[i + 2]) * 16 + HexVal(b[i + 3])

RECURSIVE SkipWs(_, _)
SkipWs(b, i) ==
    IF i <= Len(b) /\ b[i] \in {32, 9, 10, 13} THEN SkipWs(b, i + 1) ELSE i

Parsed(val, next) == [ok |-> TRUE, val |-> val, next |-> next]

\* the bytes of a JSON string from b[i], the byte after its opening quote
RECURSIVE JsonParseString(_, _, _)
JsonParseString(b, i, acc) ==
    IF i > Len(b) THEN Err(JsonError)
    ELSE IF b[i] = 34 THEN Parsed(acc, i + 1)
    ELSE IF b[i] < 32 THEN Err(JsonError)
    ELSE IF b[i] # 92 THEN JsonParseString(b, i + 1, Append(acc, b[i]))
    ELSE IF i + 1 > Len(b) THEN Err(JsonError)
    ELSE IF b[i + 1] \in {34, 92, 47}
         THEN JsonParseString(b, i + 2, Append(acc, b[i + 1]))
    ELSE IF b[i + 1] = 98 THEN JsonParseString(b, i + 2, Append(acc, 8))
    ELSE IF b[i + 1] = 102 THEN JsonParseString(b, i + 2, Append(acc, 12))
    ELSE IF b[i + 1] = 110 THEN JsonParseString(b, i + 2, Append(acc, 10))
    ELSE IF b[i + 1] = 114 THEN JsonParseString(b, i + 2, Append(acc, 13))
    ELSE IF b[i + 1] = 116 THEN JsonParseString(b, i + 2, Append(acc, 9))
    ELSE IF b[i + 1] # 117 THEN Err(JsonError)
    ELSE LET hi == Hex4(b, i + 2) IN
         IF hi = -1 \/ (hi >= 56320 /\ hi <= 57343) THEN Err(JsonError)
         ELSE IF hi < 55296 \/ hi > 57343
              THEN JsonParseString(b, i + 6, acc \o Utf8EncodeChar(hi))
         ELSE IF i + 7 > Len(b) \/ b[i + 6] # 92 \/ b[i + 7] # 117
              THEN Err(JsonError)
         ELSE LET lo == Hex4(b, i + 8) IN
              IF lo < 56320 \/ lo > 57343 THEN Err(JsonError)
              ELSE JsonParseString(b, i + 12,
                       acc \o Utf8EncodeChar(65536 + (hi - 55296) * 1024
                                             + (lo - 56320)))

\* the elements of a JSON array of strings from b[i], where a string starts
RECURSIVE JsonParseElements(_, _, _)
JsonParseElements(b, i, list) ==
    IF i > Len(b) \/ b[i] # 34 THEN Err(JsonError)
    ELSE LET s == JsonParseString(b, i + 1, <<>>) IN
         IF ~s.ok THEN Err(JsonError)
         ELSE LET str == from_utf8(s.val)
                  j == SkipWs(b, s.next)
              IN  IF ~str.ok \/ j > Len(b) THEN Err(JsonError)
                  ELSE IF b[j] = 44
                       THEN JsonParseElements(b, SkipWs(b, j + 1),
                                              Append(list, str.val))
                  ELSE IF b[j] = 93 /\ SkipWs(b, j + 1) > Len(b)
                       THEN Ok(Append(list, str.val))
                  ELSE Err(JsonError)

\* serde_json::from_slice::<Vec<String>>
json_from_slice(b) ==
    LET i == SkipWs(b, 1) IN
    IF i > Len(b) \/ b[i] # 91 THEN Err(JsonError)
    ELSE LET j == SkipWs(b, i + 1) IN
         IF j <= Len(b) /\ b[j] = 93
         THEN IF SkipWs(b, j + 1) > Len(b) THEN Ok(<<>>) ELSE Err(JsonError)
         ELSE JsonParseElements(b, j, <<>>)

\* the path segments start_ib and start_oob build
EncodeString(str) == Base64Encode(Utf8Encode(str))
EncodeAttributes(attributes) == Base64Encode(json_to_vec(attributes))

\* the first statements of decorated_continue and session_complete
DecodeString(segment) ==
    LET bytes == base64_decode(segment) IN
    IF ~bytes.ok THEN bytes ELSE from_utf8(bytes.val)

DecodeAttributes(segment) ==
    LET bytes == base64_decode(segment) IN
    IF ~bytes.ok THEN bytes ELSE json_from_slice(bytes.val)

-----------------------------------------------------------------------------
(* The inputs the pure functions are applied to. *)

AttributeLists == SeqsUpTo(Names, MaxAttrs)

\* AttributeResult values a session result may carry
AttributeResults ==
    { [identifier |-> IdEmailAlt, raw_value |-> Some("a@b.com")],
      [identifier |-> IdPhone, raw_value |-> None] }

Groups == SeqsUpTo(AttributeResults, MaxGroupSize)
Disclosures == SeqsUpTo(Groups, MaxGroups)

\* characters of the strings the codec is applied to: ? & / = # " \,
\* a control character, and characters of two, three and four UTF-8 bytes
CodecChars == {63, 38, 47, 61, 35, 34, 92, 1, 233, 8364, 128512}

CodecStrings == SeqsUpTo(CodecChars, MaxStrLen)

\* attribute names of the lists the codec is applied to
CodecNames ==
    Names \cup {<<c>> : c \in CodecChars}
          \cup {<<>>, <<10>>, <<9>>, <<92, 34>>, <<34, 44, 34>>, <<93, 91>>}

CodecLists == SeqsUpTo(CodecNames, MaxAttrs)

NoCall == [fn |-> "none"]

FnInit ==
    /\ config \in Configs
    /\ call = NoCall
    /\ sessions = <<>>
    /\ handlers = <<>>

CallMapAttributes ==
    /\ call = NoCall
    /\ \E attributes \in AttributeLists :
          call' = [fn |-> "map_attributes", attributes |-> attributes,
                   result |-> map_attributes(config, attributes)]
    /\ UNCHANGED <<config, sessions, handlers>>

CallTryFrom ==
    /\ call = NoCall
    /\ \E status \in SessionStatus, proof_status \in ProofStatus,
          disclosed \in Disclosures :
          LET value == [status |-> status, proof_status |-> proof_status,
                        disclosed |-> disclosed]
          IN  call' = [fn |-> "try_from", value |-> value,
                       result |-> try_from(value)]
    /\ UNCHANGED <<config, sessions, handlers>>

CallMapResponse ==
    /\ call = NoCall
    /\ \E attributes \in AttributeLists, disclosed \in Disclosures :
          call' = [fn |-> "map_response", attributes |-> attributes,
                   response |-> [disclosed |-> disclosed],
                   result |-> map_response(config, attributes,
                                           [disclosed |-> disclosed])]
    /\ UNCHANGED <<config, sessions, handlers>>

\* a URL through start_ib / start_oob (encode) and decorated_continue /
\* session_complete (decode)
CallCodecString ==
    /\ call = NoCall
    /\ \E str \in CodecStrings :
          call' = [fn |-> "codec_string", input |-> str,
                   segment |-> EncodeString(str),
                   decoded |-> DecodeString(EncodeString(str))]
    /\ UNCHANGED <<config, sessions, handlers>>

\* an attribute list through the same hops
CallCodecAttributes ==
    /\ call = NoCall
    /\ \E attributes \in CodecLists :
          call' = [fn |-> "codec_attributes", input |-> attributes,
                   segment |-> EncodeAttributes(attributes),
                   decoded |-> DecodeAttributes(EncodeAttributes(attributes))]
    /\ UNCHANGED <<config, sessions, handlers>>

FnNext ==
    \/ CallMapAttributes
    \/ CallTryFrom
    \/ CallMapResponse
    \/ CallCodecString
    \/ CallCodecAttributes

SpecFn == FnInit /\ [][FnNext]_vars

-----------------------------------------------------------------------------
(* The request handlers of main.rs.  A handler runs from one await to the  *)
(* next in one step; its record keeps its arguments, its locals, the calls *)
(* it made in order (trace) and, once it has finished, its response.       *)

\* main::Error variants, each carrying its cause
ErrIrma(e) == [kind |-> "Irma", cause |-> e]
ErrConfig(e) == [kind |-> "Config", cause |-> e]
ErrCodec(e) == [kind |-> e.kind]
ErrJwt == [kind |-> "Jwt"]
Reqwest == [kind |-> "Reqwest"]

\* URLs: a URL of the bridge with its two path segments, or a string
BridgeUrl(base, route, segments) ==
    [base |-> base, route |-> route, segments |-> segments]

\* the keys of the managed Config
Signer == "signing_privkey"
Encrypter == "encryption_pubkey"

\* jwt::encode_with_signer
Jws(payload, signer) == [typ |-> "JWT", payload |-> payload, signed_by |-> signer]

\* jwt::encode_with_encrypter
Jwe(payload, encrypter) ==
    [typ |-> "JWT", cty |-> "JWT", enc |-> "A128CBC-HS256",
     payload |-> payload, encrypted_for |-> encrypter]

\* the two steps in the other order: the claims encrypted, the result signed
EncryptThenSign(auth_result, signer, encrypter, fault) ==
    IF fault # "none" THEN Err(ErrJwt)
    ELSE Ok(Jws([njwe |-> Jwe([sub |-> "id-contact-attributes",
                               status |-> auth_result.status,
                               attributes |-> auth_result.attributes],
                              encrypter)], signer))

\* a packager that hands out the signed token when encryption fails
SignedOnlyWhenEncryptFails(auth_result, signer, encrypter, fault) ==
    IF fault = "sign" THEN Err(ErrJwt)
    ELSE LET jws == Jws([sub |-> "id-contact-attributes",
                         status |-> auth_result.status,
                         attributes |-> auth_result.attributes], signer)
         IN  IF fault = "encrypt" THEN Ok(jws)
             ELSE Ok(Jwe([njwt |-> jws], encrypter))

\* sign, then encrypt the whole signed token; fault is the step that fails
sign_and_encrypt(auth_result, signer, encrypter, fault) ==
    IF fault = "sign" THEN Err(ErrJwt)
    ELSE LET jws == Jws([sub |-> "id-contact-attributes",
                         status |-> auth_result.status,
                         attributes |-> auth_result.attributes], signer)
         IN  IF fault = "encrypt" THEN Err(ErrJwt)
             ELSE Ok(Jwe([njwt |-> jws], encrypter))

CryptoFaults == {"none", "sign", "encrypt"}

\* a target that always starts a new query string
RedirectTargetNewQuery(continuation, auth_result) ==
    [url |-> continuation, sep |-> 63, param |-> "result", value |-> auth_result]

\* format!("{}&result={}") when the continuation holds a '?', else
\* format!("{}?result={}")
RedirectTarget(continuation, auth_result) ==
    [url |-> continuation,
     sep |-> IF \E i \in 1..Len(continuation) : continuation[i] = 63
             THEN 38 ELSE 63,
     param |-> "result", value |-> auth_result]

\* the requests start_authentication receives
ContPlain == <<104, 47, 100>>               \* "h/d"
ContQuery == <<104, 63, 97, 61, 49, 35>>    \* "h?a=1#"
AttrUrl == <<104, 47, 114>>                 \* "h/r"

StartAuthRequests ==
    { [attributes |-> <<Email>>, continuation |-> ContPlain, attr_url |-> None],
      [attributes |-> <<Email, Phone>>, continuation |-> ContQuery,
       attr_url |-> None],
      [attributes |-> <<Email, Unmapped>>, continuation |-> ContPlain,
       attr_url |-> None],
      [attributes |-> <<Email>>, continuation |-> ContQuery,
       attr_url |-> Some(AttrUrl)],
      [attributes |-> <<Unmapped>>, continuation |-> ContPlain,
       attr_url |-> Some(AttrUrl)] }

\* an out-of-band start whose callback is on the public URL of the bridge
StartOobPublicCallback(request, attr_url) ==
    LET disclose == map_attributes(config, request.attributes) IN
    IF ~disclose.ok
    THEN [handler |-> "start_authentication", request |-> request,
          pc |-> "done", trace |-> <<"map_attributes">>,
          response |-> Err(ErrConfig(disclose.err))]
    ELSE [handler |-> "start_authentication", request |-> request,
          pc |-> "start_session", trace |-> <<"map_attributes">>,
          session_request |->
              [disclose |-> disclose.val,
               return_url |-> Some(request.continuation),
               augment_return |-> FALSE],
          callback_url |->
              Some(BridgeUrl("server_url", "session_complete",
                             <<EncodeAttributes(request.attributes),
                               EncodeString(attr_url)>>))]

\* start_oob up to the call of the disclosure server
StartOob(request, attr_url) ==
    LET disclose == map_attributes(config, request.attributes) IN
    IF ~disclose.ok
    THEN [handler |-> "start_authentication", request |-> request,
          pc |-> "done", trace |-> <<"map_attributes">>,
          response |-> Err(ErrConfig(disclose.err))]
    ELSE [handler |-> "start_authentication", request |-> request,
          pc |-> "start_session", trace |-> <<"map_attributes">>,
          session_request |->
              [disclose |-> disclose.val,
               return_url |-> Some(request.continuation),
               augment_return |-> FALSE],
          callback_url |->
              Some(BridgeUrl("internal_url", "session_complete",
                             <<EncodeAttributes(request.attributes),
                               EncodeString(attr_url)>>))]

\* start_ib up to the call of the disclosure server
StartIb(request) ==
    LET continuation_url ==
            BridgeUrl("server_url", "decorated_continue",
                      <<EncodeAttributes(request.attributes),
                        EncodeString(request.continuation)>>)
        disclose == map_attributes(config, request.attributes)
    IN  IF ~disclose.ok
        THEN [handler |-> "start_authentication", request |-> request,
              pc |-> "done", trace |-> <<"map_attributes">>,
              response |-> Err(ErrConfig(disclose.err))]
        ELSE [handler |-> "start_authentication", request |-> request,
              pc |-> "start_session", trace |-> <<"map_attributes">>,
              session_request |->
                  [disclose |-> disclose.val,
                   return_url |-> Some(continuation_url),
                   augment_return |-> TRUE],
              callback_url |-> None]

\* POST /start_authentication: the flow is chosen from attr_url
StartAuthentication ==
    /\ Len(handlers) < MaxHandlers
    /\ \E request \in StartAuthRequests :
          handlers' = Append(handlers,
              IF request.attr_url.some
              THEN StartOob(request, request.attr_url.v)
              ELSE StartIb(request))
    /\ UNCHANGED <<config, call, sessions>>

\* the client_url of the response: the session pointer and the continuation
ClientUrl(h, token) ==
    [base |-> "server_url", route |-> "auth", qr |-> [sessionPtr |-> token],
     continuation |->
        IF h.request.attr_url.some
        THEN [url |-> h.request.continuation]
        ELSE [url |-> h.session_request.return_url.v, token |-> token]]

\* IrmaServer::start / start_with_callback answers: a session exists
StartSessionOk(i) ==
    /\ handlers[i].pc = "start_session"
    /\ LET token == Len(sessions) + 1 IN
       /\ sessions' = Append(sessions,
              [request |-> handlers[i].session_request,
               callback_url |-> handlers[i].callback_url,
               started_by |-> i])
       /\ handlers' = [handlers EXCEPT ![i] =
              [handler |-> @.handler, request |-> @.request, pc |-> "done",
               trace |-> Append(@.trace, "start"),
               response |-> Ok([client_url |-> ClientUrl(@, token)])]]
    /\ UNCHANGED <<config, call>>

\* a start call that is made again after it failed
StartSessionRetried(i) ==
    /\ handlers[i].pc = "start_session"
    /\ handlers' = [handlers EXCEPT ![i].trace = Append(@, "start")]
    /\ UNCHANGED <<config, call, sessions>>

\* IrmaServer::start / start_with_callback fails
StartSessionFails(i) ==
    /\ handlers[i].pc = "start_session"
    /\ handlers' = [handlers EXCEPT ![i] =
           [handler |-> @.handler, request |-> @.request, pc |-> "done",
            trace |-> Append(@.trace, "start"),
            response |-> Err(ErrIrma(Reqwest))]]
    /\ UNCHANGED <<config, call, sessions>>

\* a return hop that goes on with an empty list when the attribute segment
\* cannot be decoded
DecoratedContinueDefaulting(token, attributes, continuation, sent_by_bridge) ==
    LET c == DecodeString(continuation)
        a == DecodeAttributes(attributes)
        args == [token |-> token, attributes |-> attributes,
                 continuation |-> continuation]
    IN  IF ~c.ok
        THEN [handler |-> "decorated_continue", args |-> args,
              sent_by_bridge |-> sent_by_bridge, pc |-> "done",
              trace |-> <<"decode">>, response |-> Err(ErrCodec(c.err))]
        ELSE [handler |-> "decorated_continue", args |-> args,
              sent_by_bridge |-> sent_by_bridge, pc |-> "get_result",
              trace |-> <<"decode">>, continuation |-> c.val,
              attributes |-> IF a.ok THEN a.val ELSE <<>>]

\* decorated_continue up to the call of the disclosure server
DecoratedContinue(token, attributes, continuation, sent_by_bridge) ==
    LET c == DecodeString(continuation)
        a == DecodeAttributes(attributes)
        args == [token |-> token, attributes |-> attributes,
                 continuation |-> continuation]
    IN  IF ~c.ok
        THEN [handler |-> "decorated_continue", args |-> args,
              sent_by_bridge |-> sent_by_bridge, pc |-> "done",
              trace |-> <<"decode">>, response |-> Err(ErrCodec(c.err))]
        ELSE IF ~a.ok
        THEN [handler |-> "decorated_continue", args |-> args,
              sent_by_bridge |-> sent_by_bridge, pc |-> "done",
              trace |-> <<"decode">>, response |-> Err(ErrCodec(a.err))]
        ELSE [handler |-> "decorated_continue", args |-> args,
              sent_by_bridge |-> sent_by_bridge, pc |-> "get_result",
              trace |-> <<"decode">>,
              continuation |-> c.val, attributes |-> a.val]

\* GET /decorated_continue/<attributes>/<continuation>?<token>: the user
\* comes back on the return URL of a session, the disclosure UI having
\* appended the token of that session
ReturnToBridge ==
    /\ Len(handlers) < MaxHandlers
    /\ \E token \in 1..Len(sessions) :
          LET request == sessions[token].request IN
          /\ request.augment_return
          /\ handlers' = Append(handlers,
                 DecoratedContinue(token, request.return_url.v.segments[1],
                                   request.return_url.v.segments[2], TRUE))
    /\ UNCHANGED <<config, call, sessions>>

\* the results the disclosure server may answer with
FlowDisclosures ==
    { <<>>,
      << <<[identifier |-> IdEmailAlt, raw_value |-> Some("a@b.com")]>> >>,
      << <<[identifier |-> IdPhone, raw_value |-> None]>> >>,
      << <<[identifier |-> IdEmailAlt, raw_value |-> Some("a@b.com")]>>,
         <<[identifier |-> IdPhone, raw_value |-> None]>> >>,
      << <<[identifier |-> IdEmailAlt, raw_value |-> Some("a@b.com")],
           <<[identifier |-> IdPhone, raw_value |-> None]>> >> >> }

RawResults ==
    [status : {"Done"}, proof_status : {"Valid"}, disclosed : FlowDisclosures]
    \cup [status : {"Done"}, proof_status : {"Invalid", "Expired"},
          disclosed : {<< <<[identifier |-> IdEmailAlt,
                             raw_value |-> Some("a@b.com")]>> >>}]
    \cup [status : {"Cancelled", "Timeout", "Initialized", "Connected"},
          proof_status : {"Valid"}, disclosed : {<<>>}]

\* the handler has returned: its locals stay in the record for inspection
Finished(h, trace, response) ==
    [response |-> response]
    @@ [h EXCEPT !.pc = "done", !.trace = @ \o trace]

\* a return hop that validates the disclosed groups of any answer, whatever
\* its session status and proof status
DecoratedContinueUnchecked(h, raw, fault) ==
    LET attributes ==
            map_response(config, h.attributes, [disclosed |-> raw.disclosed])
    IN  IF ~attributes.ok
        THEN Finished(h, <<"get_result", "map_response">>,
                      Err(ErrConfig(attributes.err)))
             @@ [fetched |-> raw]
        ELSE Finished(h, <<"get_result", "map_response",
                           "sign_and_encrypt", "redirect">>,
                      Ok([redirect |->
                             RedirectTarget(h.continuation,
                                 sign_and_encrypt(
                                     [status |-> "succes",
                                      attributes |-> Some(attributes.val),
                                      session_url |-> None],
                                     Signer, Encrypter, "none").val)]))
             @@ [fetched |-> raw, sealing |-> "none"]

\* decorated_continue from the answer of get_result to its response
DecoratedContinueResult(h, raw, fault) ==
    LET session_result == try_from(raw) IN
    IF ~session_result.ok
    THEN Finished(h, <<"get_result">>, Err(ErrIrma(session_result.err)))
         @@ [fetched |-> raw]
    ELSE LET attributes ==
                 map_response(config, h.attributes, session_result.val)
         IN
         IF ~attributes.ok
         THEN Finished(h, <<"get_result", "map_response">>,
                       Err(ErrConfig(attributes.err)))
              @@ [fetched |-> raw]
         ELSE LET auth_result ==
                      sign_and_encrypt(
                          [status |-> "succes",
                           attributes |-> Some(attributes.val),
                           session_url |-> None],
                          Signer, Encrypter, fault)
              IN
              IF ~auth_result.ok
              THEN Finished(h, <<"get_result", "map_response",
                                 "sign_and_encrypt">>, Err(auth_result.err))
                   @@ [fetched |-> raw, sealing |-> fault]
              ELSE Finished(h, <<"get_result", "map_response",
                                 "sign_and_encrypt", "redirect">>,
                            Ok([redirect |->
                                   RedirectTarget(h.continuation,
                                                  auth_result.val)]))
                   @@ [fetched |-> raw, sealing |-> fault]

\* session_complete up to the call of the disclosure server
SessionComplete(token, attributes, attr_url, sent_by_bridge) ==
    LET u == DecodeString(attr_url)
        a == DecodeAttributes(attributes)
        args == [token |-> token, attributes |-> attributes,
                 attr_url |-> attr_url]
    IN  IF ~u.ok
        THEN [handler |-> "session_complete", args |-> args,
              sent_by_bridge |-> sent_by_bridge, pc |-> "done",
              trace |-> <<"decode">>, response |-> Err(ErrCodec(u.err))]
        ELSE IF ~a.ok
        THEN [handler |-> "session_complete", args |-> args,
              sent_by_bridge |-> sent_by_bridge, pc |-> "done",
              trace |-> <<"decode">>, response |-> Err(ErrCodec(a.err))]
        ELSE [handler |-> "session_complete", args |-> args,
              sent_by_bridge |-> sent_by_bridge, pc |-> "get_result",
              trace |-> <<"decode">>,
              attr_url |-> u.val, attributes |-> a.val]

\* POST /session_complete/<attributes>/<attr_url> with the token in the body:
\* the disclosure server calls the callback URL of a session
SessionCallback ==
    /\ Len(handlers) < MaxHandlers
    /\ \E token \in 1..Len(sessions) :
          LET callback_url == sessions[token].callback_url IN
          /\ callback_url.some
          /\ handlers' = Append(handlers,
                 SessionComplete(token, callback_url.v.segments[1],
                                 callback_url.v.segments[2], TRUE))
    /\ UNCHANGED <<config, call, sessions>>

\* path segments that are not what the bridge wrote into a URL
BadBase64 == <<33>>                                    \* "!"
BadUtf8 == Base64Encode(<<255>>)
BadJson == Base64Encode(<<91, 49, 93>>)                \* [1]
NotArray == Base64Encode(<<123, 125>>)                 \* {}

BadUrlSegments == {BadBase64, BadUtf8}
BadAttributeSegments == {BadBase64, BadUtf8, BadJson, NotArray}

\* a request on a return URL or a callback URL of a session with one of its
\* two path segments replaced
AlteredReturn ==
    /\ Len(handlers) < MaxHandlers
    /\ \E token \in 1..Len(sessions) :
          LET session == sessions[token]
              url == IF session.request.augment_return
                     THEN session.request.return_url.v
                     ELSE session.callback_url.v
          IN  \E segments \in
                  {<<bad, url.segments[2]>> : bad \in BadAttributeSegments}
                  \cup {<<url.segments[1], bad>> : bad \in BadUrlSegments} :
                 handlers' = Append(handlers,
                     IF session.request.augment_return
                     THEN DecoratedContinue(token, segments[1], segments[2],
                                            FALSE)
                     ELSE SessionComplete(token, segments[1], segments[2],
                                          FALSE))
    /\ UNCHANGED <<config, call, sessions>>

\* the sessions whose return URL is a decorated_continue URL
InBandSessions ==
    {t \in 1..Len(sessions) : sessions[t].request.augment_return}

\* GET /decorated_continue/<attributes>/<continuation>?<token> put together
\* by the sender: the token of one session with path segments taken from the
\* return URLs of sessions, not both from the one of the token
MixedReturn ==
    /\ Len(handlers) < MaxHandlers
    /\ \E token \in 1..Len(sessions), s \in InBandSessions,
          t \in InBandSessions :
          /\ s # token \/ t # token
          /\ handlers' = Append(handlers,
                 DecoratedContinue(token,
                     sessions[s].request.return_url.v.segments[1],
                     sessions[t].request.return_url.v.segments[2], FALSE))
    /\ UNCHANGED <<config, call, sessions>>

\* client.post(attr_url).header("Content-Type", "application/jwt").body(..)
DeliveryPost(attr_url, auth_result) ==
    [method |-> "POST", url |-> attr_url,
     content_type |-> "application/jwt", body |-> auth_result]

\* the () of Ok(())
Unit == <<>>

\* a callback that sends its POST before the answer is validated
SessionCompleteEarlyPost(h, raw, fault) ==
    [h EXCEPT !.pc = "post",
              !.trace = @ \o <<"get_result", "sign_and_encrypt", "post">>]
    @@ [fetched |-> raw, sealing |-> "none",
        post |-> DeliveryPost(h.attr_url,
                     sign_and_encrypt([status |-> "succes",
                                       attributes |-> None,
                                       session_url |-> None],
                                      Signer, Encrypter, "none").val)]

\* session_complete from the answer of get_result to the sending of the POST
SessionCompleteResult(h, raw, fault) ==
    LET session_result == try_from(raw) IN
    IF ~session_result.ok
    THEN Finished(h, <<"get_result">>, Err(ErrIrma(session_result.err)))
         @@ [fetched |-> raw]
    ELSE LET attributes ==
                 map_response(config, h.attributes, session_result.val)
         IN
         IF ~attributes.ok
         THEN Finished(h, <<"get_result", "map_response">>,
                       Err(ErrConfig(attributes.err)))
              @@ [fetched |-> raw]
         ELSE LET auth_result ==
                      sign_and_encrypt(
                          [status |-> "succes",
                           attributes |-> Some(attributes.val),
                           session_url |-> None],
                          Signer, Encrypter, fault)
              IN
              IF ~auth_result.ok
              THEN Finished(h, <<"get_result", "map_response",
                                 "sign_and_encrypt">>, Err(auth_result.err))
                   @@ [fetched |-> raw, sealing |-> fault]
              ELSE [h EXCEPT !.pc = "post",
                             !.trace = @ \o <<"get_result", "map_response",
                                              "sign_and_encrypt", "post">>]
                   @@ [fetched |-> raw, sealing |-> fault,
                       post |-> DeliveryPost(h.attr_url, auth_result.val)]

\* get_result answers with a session result
GetResultOk(i) ==
    /\ handlers[i].pc = "get_result"
    /\ \E raw \in RawResults, fault \in CryptoFaults :
          handlers' = [handlers EXCEPT ![i] =
                          IF @.handler = "decorated_continue"
                          THEN DecoratedContinueResult(@, raw, fault)
                          ELSE SessionCompleteResult(@, raw, fault)]
    /\ UNCHANGED <<config, call, sessions>>

\* a failed fetch that ends every handler waiting for a fetch
GetResultFailsForAll(i) ==
    /\ handlers[i].pc = "get_result"
    /\ handlers' = [j \in 1..Len(handlers) |->
           IF handlers[j].pc = "get_result"
           THEN Finished(handlers[j], <<"get_result">>, Err(ErrIrma(Reqwest)))
           ELSE handlers[j]]
    /\ UNCHANGED <<config, call, sessions>>

\* get_result fails: no answer, or one that is no RawIrmaResult
GetResultFails(i) ==
    /\ handlers[i].pc = "get_result"
    /\ handlers' = [handlers EXCEPT ![i] =
           Finished(@, <<"get_result">>, Err(ErrIrma(Reqwest)))]
    /\ UNCHANGED <<config, call, sessions>>

\* the delivery POST was sent and answered
PostOk(i) ==
    /\ handlers[i].pc = "post"
    /\ handlers' = [handlers EXCEPT ![i] =
           Finished(@, <<>>, Ok(Unit)) @@ [logged |-> <<>>]]
    /\ UNCHANGED <<config, call, sessions>>

\* a failed delivery POST returned as the error of the callback request
PostFailsSurfaced(i) ==
    /\ handlers[i].pc = "post"
    /\ handlers' = [handlers EXCEPT ![i] =
           Finished(@, <<>>, Err(ErrIrma(Reqwest)))
           @@ [logged |-> <<"Failure reporting results">>]]
    /\ UNCHANGED <<config, call, sessions>>

\* the delivery POST failed: println!("Failure reporting results: {}", e)
PostFails(i) ==
    /\ handlers[i].pc = "post"
    /\ handlers' = [handlers EXCEPT ![i] =
           Finished(@, <<>>, Ok(Unit))
           @@ [logged |-> <<"Failure reporting results">>]]
    /\ UNCHANGED <<config, call, sessions>>

Init ==
    /\ config \in Configs
    /\ call = NoCall
    /\ sessions = <<>>
    /\ handlers = <<>>

Next ==
    \/ StartAuthentication
    \/ \E i \in 1..Len(handlers) : StartSessionOk(i)
    \/ \E i \in 1..Len(handlers) : StartSessionFails(i)
    \/ ReturnToBridge
    \/ SessionCallback
    \/ AlteredReturn
    \/ MixedReturn
    \/ \E i \in 1..Len(handlers) : GetResultOk(i)
    \/ \E i \in 1..Len(handlers) : GetResultFails(i)
    \/ \E i \in 1..Len(handlers) : PostOk(i)
    \/ \E i \in 1..Len(handlers) : PostFails(i)

Spec == Init /\ [][Next]_vars

-----------------------------------------------------------------------------
(* Properties of the attribute mapper, the classification and the          *)
(* cross-check, over SpecFn.                                               *)

Configured(attributes) == \A i \in 1..Len(attributes) : attributes[i] \in DOMAIN config

FirstUnmapped(attributes) ==
    CHOOSE i \in 1..Len(attributes) :
        /\ attributes[i] \notin DOMAIN config
        /\ \A j \in 1..(i - 1) : attributes[j] \in DOMAIN config

\* C1: for a list A of configured names map_attributes returns |A|
\* disjunctions; the disjunction at position i holds exactly one
\* single-attribute conjunction per identifier configured for A[i], in
\* configuration order.
C1_MapAttributesStructure ==
    (call.fn = "map_attributes" /\ Configured(call.attributes)) =>
        /\ call.result.ok
        /\ Len(call.result.val) = Len(call.attributes)
        /\ \A i \in 1..Len(call.attributes) :
             LET dis == call.result.val[i]
                 ids == config[call.attributes[i]]
             IN  /\ Len(dis) = Len(ids)
                 /\ \A j \in 1..Len(ids) : dis[j] = <<Simple(ids[j])>>

C1_Witness ==
    /\ call.fn = "map_attributes"
    /\ Len(call.attributes) = 2
    /\ Configured(call.attributes)
    /\ call.attributes[1] # call.attributes[2]
    /\ Len(config[call.attributes[2]]) = 2
    /\ call.result.ok

C3_TerminalStatusWins ==
    (call.fn = "try_from") =>
        /\ call.value.status = "Cancelled" => call.result = Err(IrmaCancelled)
        /\ call.value.status = "Timeout" => call.result = Err(IrmaTimeout)

C3_Witness ==
    /\ call.fn = "try_from"
    /\ call.value.status = "Cancelled"
    /\ call.value.proof_status = "Valid"
    /\ call.value.disclosed # <<>>
    /\ call.result = Err(IrmaCancelled)

\* C4: every pair of session status and proof status has exactly one outcome:
\* Incomplete for Initialized and Connected, Cancelled, TimedOut, InvalidProof
\* for Done with a proof status other than Valid, and success passing the
\* disclosed groups on only for Done with Valid.
C4_ClassificationTable ==
    (call.fn = "try_from") =>
        LET v == call.value IN
        /\ v.status \in {"Initialized", "Connected"} =>
               call.result = Err(IrmaIncomplete)
        /\ v.status = "Cancelled" => call.result = Err(IrmaCancelled)
        /\ v.status = "Timeout" => call.result = Err(IrmaTimeout)
        /\ (v.status = "Done" /\ v.proof_status # "Valid") =>
               call.result = Err(IrmaInvalid)
        /\ (v.status = "Done" /\ v.proof_status = "Valid") =>
               call.result = Ok([disclosed |-> v.disclosed])
        /\ call.result.ok <=> (v.status = "Done" /\ v.proof_status = "Valid")

C4_Witness ==
    /\ call.fn = "try_from"
    /\ call.value.status = "Done"
    /\ call.value.proof_status = "Expired"
    /\ call.result = Err(IrmaInvalid)

\* C5: when the number of disclosed groups differs from |A| map_response
\* fails with NotMatching and returns no attribute map.
C5_CountMismatch ==
    (call.fn = "map_response"
        /\ Len(call.response.disclosed) # Len(call.attributes)) =>
        /\ ~call.result.ok
        /\ "val" \notin DOMAIN call.result
        /\ call.result.err.kind = "NotMatching"

C5_Witness ==
    /\ call.fn = "map_response"
    /\ Len(call.attributes) = 1
    /\ Len(call.response.disclosed) = 2
    /\ \A i \in 1..2 : Len(call.response.disclosed[i]) = 1
    /\ call.result.err.kind = "NotMatching"

\* the result discloses, at every position, one attribute whose identifier
\* is configured for the name at that position
Matching(attributes, disclosed) ==
    /\ Configured(attributes)
    /\ Len(disclosed) = Len(attributes)
    /\ \A i \in 1..Len(attributes) :
         /\ Len(disclosed[i]) = 1
         /\ Contains(config[attributes[i]], disclosed[i][1].identifier)

NamesOf(attributes) == {attributes[i] : i \in 1..Len(attributes)}

C7_Original ==
    (call.fn = "map_response"
        /\ Matching(call.attributes, call.response.disclosed)) =>
        /\ map_attributes(config, call.attributes).ok
        /\ call.result.ok
        /\ DOMAIN call.result.val = NamesOf(call.attributes)
        /\ Cardinality(DOMAIN call.result.val) = Len(call.attributes)

\* C7, amended: a matching result for a list A of configured names yields a
\* map whose keys are exactly the names of A, one entry per distinct name
\* (|A| entries when no name is repeated); each value is the raw value
\* disclosed at a position of that name.
C7_RoundTrip ==
    (call.fn = "map_response"
        /\ Matching(call.attributes, call.response.disclosed)) =>
        LET A == call.attributes
            d == call.response.disclosed
        IN  /\ map_attributes(config, A).ok
            /\ Len(map_attributes(config, A).val) = Len(d)
            /\ call.result.ok
            /\ DOMAIN call.result.val = NamesOf(A)
            /\ (\A i, j \in 1..Len(A) : A[i] = A[j] => i = j) =>
                   Cardinality(DOMAIN call.result.val) = Len(A)
            /\ \A n \in NamesOf(A) :
                   \E i \in 1..Len(A) :
                       /\ A[i] = n
                       /\ call.result.val[n] = UnwrapOr(d[i][1].raw_value, "")

C7_Witness ==
    /\ call.fn = "map_response"
    /\ Matching(call.attributes, call.response.disclosed)
    /\ call.attributes = <<Email, Phone>>
    /\ call.result.ok
    /\ Cardinality(DOMAIN call.result.val) = 2

\* the bytes a URL path segment may hold without being split or percent-encoded
UrlSafeSegment(segment) ==
    \A i \in 1..Len(segment) : B64Val(segment[i]) # -1 \/ segment[i] = 61

\* C8: the segments the bridge emits for a continuation (or delivery) URL and
\* for an attribute list decode, as decorated_continue and session_complete
\* decode them, to exactly the original string and the original list, also
\* for strings with reserved URL characters.
C8_CodecRoundTrip ==
    (call.fn \in {"codec_string", "codec_attributes"}) =>
        /\ call.decoded = Ok(call.input)
        /\ UrlSafeSegment(call.segment)

C8_Witness ==
    /\ call.fn = "codec_string"
    /\ call.input = <<63, 38, 47, 35>>
    /\ \E i \in 1..Len(call.segment) : call.segment[i] = 61
    /\ call.decoded = Ok(call.input)

-----------------------------------------------------------------------------
(* Properties of the in-band return hop, over Spec.                        *)

DecoratedContinues ==
    {i \in 1..Len(handlers) : handlers[i].handler = "decorated_continue"}

\* the fetched session result is a protocol or validation failure
FailedSession(h) ==
    /\ "fetched" \in DOMAIN h
    /\ LET session_result == try_from(h.fetched) IN
       \/ ~session_result.ok
       \/ ~map_response(config, h.attributes, session_result.val).ok

HasChar(str, c) == \E k \in 1..Len(str) : str[k] = c

\* C9: when the fetched session result is a protocol or validation failure,
\* decorated_continue still answers with a redirect that carries a sealed
\* result of status failed and without attributes.
C9_FailureIsSealed ==
    \A i \in DecoratedContinues :
        (handlers[i].pc = "done" /\ FailedSession(handlers[i])) =>
            /\ handlers[i].response.ok
            /\ LET sealed == handlers[i].response.val.redirect.value
                   claims == sealed.payload.njwt.payload
               IN  /\ claims.status = "failed"
                   /\ ~claims.attributes.some

\* the start_authentication request that started the session of a token
Origin(token) == handlers[sessions[token].started_by].request

-----------------------------------------------------------------------------
(* Properties of the out-of-band delivery and of the handlers, over Spec.  *)

SessionCompletes ==
    {i \in 1..Len(handlers) : handlers[i].handler = "session_complete"}

\* the delivery POST of the handler was sent and it failed
DeliveryFailed(h) ==
    /\ h.pc = "done"
    /\ "logged" \in DOMAIN h
    /\ h.logged # <<>>

\* C11: when the POST of the sealed result to the delivery URL fails,
\* session_complete still answers Ok(()): the failure is a log line only,
\* and the URL the disclosure UI sends the end-user to stays the caller's
\* continuation, unaugmented.
C11_DeliveryFailureLoggedOnly ==
    \A i \in SessionCompletes :
        LET h == handlers[i] IN
        DeliveryFailed(h) =>
            /\ h.response = Ok(Unit)
            /\ h.logged = <<"Failure reporting results">>
            /\ h.sent_by_bridge =>
                   LET session == sessions[h.args.token] IN
                   /\ session.request.return_url =
                          Some(Origin(h.args.token).continuation)
                   /\ ~session.request.augment_return

\* a callback of the disclosure server whose delivery POST failed
C11_Witness ==
    \E i \in SessionCompletes :
        /\ handlers[i].sent_by_bridge
        /\ DeliveryFailed(handlers[i])
        /\ handlers[i].post.url = AttrUrl

\* every sealed result that has left a handler, in a redirect or in a POST
SealedResults ==
    {handlers[i].response.val.redirect.value :
        i \in {j \in DecoratedContinues :
                 handlers[j].pc = "done" /\ handlers[j].response.ok}}
    \cup {handlers[i].post.body :
            i \in {j \in SessionCompletes : "post" \in DOMAIN handlers[j]}}

\* JwsVerifier::verify with the public half of a signing key
Verifies(token, signer) ==
    "signed_by" \in DOMAIN token /\ token.signed_by = signer

OtherSigner == "other_privkey"

\* C12: every sealed result is an encrypted token whose only claim, njwt,
\* is the whole signed token; the signed token carries the claims, verifies
\* with the configured signer and not with another one.  No sealed result is
\* a signed token around an encrypted one, nor an encrypted token around
\* unsigned claims.
C12_SignThenEncrypt ==
    \A sealed \in SealedResults :
        /\ DOMAIN sealed = {"typ", "cty", "enc", "payload", "encrypted_for"}
        /\ sealed.cty = "JWT"
        /\ sealed.encrypted_for = Encrypter
        /\ DOMAIN sealed.payload = {"njwt"}
        /\ LET jws == sealed.payload.njwt IN
           /\ DOMAIN jws = {"typ", "payload", "signed_by"}
           /\ Verifies(jws, Signer)
           /\ ~Verifies(jws, OtherSigner)
           /\ DOMAIN jws.payload = {"sub", "status", "attributes"}
           /\ jws.payload.sub = "id-contact-attributes"

\* a sealed result with a disclosed value, sent in a delivery POST
C12_Witness ==
    \E i \in SessionCompletes :
        /\ "post" \in DOMAIN handlers[i]
        /\ handlers[i].post.body \in SealedResults
        /\ handlers[i].post.body.payload.njwt.payload.attributes.some
        /\ handlers[i].post.body.payload.njwt.payload.attributes.v[Email]
               = "a@b.com"

ReturnHandlers == DecoratedContinues \cup SessionCompletes

\* the sealed results a handler has let out: in its redirect, in its POST
SealedBy(h) ==
    IF h.handler = "decorated_continue"
    THEN IF h.pc = "done" /\ h.response.ok
         THEN {h.response.val.redirect.value} ELSE {}
    ELSE IF "post" \in DOMAIN h THEN {h.post.body} ELSE {}

\* the answer the handler fetched passes every check: Done, Valid, as many
\* groups as requested names, one attribute per group, its identifier among
\* those configured for the name at the same position
ChecksPass(h) ==
    /\ "fetched" \in DOMAIN h
    /\ h.fetched.status = "Done"
    /\ h.fetched.proof_status = "Valid"
    /\ Len(h.fetched.disclosed) = Len(h.attributes)
    /\ \A k \in 1..Len(h.attributes) :
         /\ Len(h.fetched.disclosed[k]) = 1
         /\ h.attributes[k] \in DOMAIN config
         /\ Contains(config[h.attributes[k]],
                     h.fetched.disclosed[k][1].identifier)

\* C13: a handler lets out a sealed result, of status success, only when
\* the answer it fetched passes every check; a handler that has finished
\* without such an answer has answered with an error that carries no value,
\* and has sealed and sent nothing.
C13_SuccessOnlyAfterAllChecks ==
    \A i \in ReturnHandlers :
        LET h == handlers[i] IN
        /\ SealedBy(h) # {} =>
               /\ ChecksPass(h)
               /\ \A sealed \in SealedBy(h) :
                    /\ sealed.payload.njwt.payload.status = "succes"
                    /\ sealed.payload.njwt.payload.attributes.some
        /\ (h.pc = "done" /\ ~ChecksPass(h)) =>
               /\ SealedBy(h) = {}
               /\ ~h.response.ok
               /\ DOMAIN h.response = {"ok", "err"}
               /\ "post" \notin DOMAIN h
               /\ \A k \in 1..Len(h.trace) : h.trace[k] # "sign_and_encrypt"

\* a sealed result for two requested names, and next to it a return whose
\* answer had an invalid proof
C13_Witness ==
    /\ \E i \in DecoratedContinues :
         /\ SealedBy(handlers[i]) # {}
         /\ Len(handlers[i].attributes) = 2
         /\ ChecksPass(handlers[i])
    /\ \E i \in DecoratedContinues :
         /\ handlers[i].pc = "done"
         /\ "fetched" \in DOMAIN handlers[i]
         /\ handlers[i].fetched.proof_status = "Invalid"
         /\ ~handlers[i].response.ok

\* every path segment that occurs in a URL of the model, and what the
\* decoding statements of the return handlers make of it
AttributeSegments ==
    {EncodeAttributes(request.attributes) : request \in StartAuthRequests}
    \cup BadAttributeSegments

UrlSegments ==
    {EncodeString(request.continuation) : request \in StartAuthRequests}
    \cup {EncodeString(AttrUrl)} \cup BadUrlSegments

DecodedAttributes == [segment \in AttributeSegments |->
                         DecodeAttributes(segment)]

DecodedUrls == [segment \in UrlSegments |-> DecodeString(segment)]

Starts ==
    {i \in 1..Len(handlers) : handlers[i].handler = "start_authentication"}

\* the sessions the disclosure server started for a handler
SessionsOf(i) == {t \in 1..Len(sessions) : sessions[t].started_by = i}

\* what the disclosure server is asked for in the flow attr_url chooses
FlowOf(request, session_request, callback_url) ==
    /\ session_request.disclose =
           map_attributes(config, request.attributes).val
    /\ IF request.attr_url.some
       THEN /\ callback_url.some
            /\ callback_url.v.base = "internal_url"
            /\ callback_url.v.route = "session_complete"
            /\ Len(callback_url.v.segments) = 2
            /\ DecodedAttributes[callback_url.v.segments[1]]
                   = Ok(request.attributes)
            /\ DecodedUrls[callback_url.v.segments[2]]
                   = Ok(request.attr_url.v)
            /\ ~session_request.augment_return
            /\ session_request.return_url = Some(request.continuation)
       ELSE /\ callback_url = None
            /\ session_request.augment_return
            /\ session_request.return_url.some
            /\ session_request.return_url.v.base = "server_url"
            /\ session_request.return_url.v.route = "decorated_continue"
            /\ Len(session_request.return_url.v.segments) = 2
            /\ DecodedAttributes[session_request.return_url.v.segments[1]]
                   = Ok(request.attributes)
            /\ DecodedUrls[session_request.return_url.v.segments[2]]
                   = Ok(request.continuation)

\* C15: start_authentication asks for a session with a callback to
\* session_complete on the internal URL, the caller's continuation as return
\* URL and augment_return false when attr_url is present, and for a session
\* without callback, with the decorated_continue URL as return URL and
\* augment_return true when it is absent; a request that succeeded has
\* started exactly one session, any other request none, and the client_url
\* holds the pointer of that session and the continuation.
C15_FlowChosenByAttrUrl ==
    \A i \in Starts :
        LET h == handlers[i] IN
        /\ h.pc = "start_session" =>
               /\ FlowOf(h.request, h.session_request, h.callback_url)
               /\ SessionsOf(i) = {}
        /\ (h.pc = "done" /\ ~h.response.ok) => SessionsOf(i) = {}
        /\ (h.pc = "done" /\ h.response.ok) =>
               /\ Cardinality(SessionsOf(i)) = 1
               /\ \A t \in SessionsOf(i) :
                    LET client_url == h.response.val.client_url IN
                    /\ FlowOf(h.request, sessions[t].request,
                              sessions[t].callback_url)
                    /\ client_url.base = "server_url"
                    /\ client_url.route = "auth"
                    /\ client_url.qr = [sessionPtr |-> t]
                    /\ client_url.continuation =
                           IF h.request.attr_url.some
                           THEN [url |-> h.request.continuation]
                           ELSE [url |-> sessions[t].request.return_url.v,
                                 token |-> t]

\* one session of each flow, both started
C15_Witness ==
    /\ \E i \in Starts :
         /\ handlers[i].request.attr_url = Some(AttrUrl)
         /\ handlers[i].pc = "done"
         /\ handlers[i].response.ok
         /\ \E t \in SessionsOf(i) : sessions[t].callback_url.some
    /\ \E i \in Starts :
         /\ handlers[i].request.attr_url = None
         /\ handlers[i].pc = "done"
         /\ handlers[i].response.ok
         /\ \E t \in SessionsOf(i) : sessions[t].request.augment_return

\* C16: out of band, a sealed result leaves the bridge only in the body of a
\* POST, sent after fetch, validation and sealing in that order, to the URL
\* the caller gave as attr_url when it started the session; a callback that
\* failed before the POST has sent nothing, the response of the callback is
\* empty, and the URL the end-user is sent back to is the caller's
\* continuation as it was given.
C16_DeliveredByPostOnly ==
    /\ \A i \in SessionCompletes :
         LET h == handlers[i] IN
         /\ "post" \in DOMAIN h =>
                /\ h.trace = <<"decode", "get_result", "map_response",
                               "sign_and_encrypt", "post">>
                /\ ChecksPass(h)
                /\ h.post.method = "POST"
                /\ h.post.body \in SealedResults
                /\ h.sent_by_bridge =>
                       /\ Origin(h.args.token).attr_url.some
                       /\ h.post.url = Origin(h.args.token).attr_url.v
         /\ (h.pc = "done" /\ ~h.response.ok) => "post" \notin DOMAIN h
         /\ (h.pc = "done" /\ h.response.ok) =>
                /\ h.response.val = Unit
                /\ "post" \in DOMAIN h
    /\ \A t \in 1..Len(sessions) :
         sessions[t].callback_url.some =>
             /\ ~sessions[t].request.augment_return
             /\ sessions[t].request.return_url = Some(Origin(t).continuation)
    /\ \A i \in 1..Len(handlers) :
         handlers[i].handler # "session_complete" =>
             "post" \notin DOMAIN handlers[i]

\* a delivery that arrived at the caller's URL
C16_Witness ==
    \E i \in SessionCompletes :
        /\ handlers[i].sent_by_bridge
        /\ handlers[i].pc = "done"
        /\ "logged" \in DOMAIN handlers[i]
        /\ handlers[i].logged = <<>>
        /\ handlers[i].post.url = Origin(handlers[i].args.token).attr_url.v
        /\ handlers[i].post.url # Origin(handlers[i].args.token).continuation

\* how often a handler has made an external call
Attempts(h, external_call) ==
    Cardinality({k \in 1..Len(h.trace) : h.trace[k] = external_call})

\* the external calls a handler may make
CallsOf(handler) ==
    IF handler = "start_authentication" THEN {"start"}
    ELSE IF handler = "decorated_continue" THEN {"get_result"}
    ELSE {"get_result", "post"}

\* an external call of the handler has failed
CallFailed(h) ==
    /\ h.pc = "done"
    /\ \/ h.response = Err(ErrIrma(Reqwest))
       \/ DeliveryFailed(h)

AtMostOnce ==
    /\ \A i \in 1..Len(handlers) :
         LET h == handlers[i] IN
         /\ \A c \in {"start", "get_result", "post"} :
              Attempts(h, c) <= (IF c \in CallsOf(h.handler) THEN 1 ELSE 0)
         /\ CallFailed(h) =>
              /\ h.trace[Len(h.trace)] \in CallsOf(h.handler)
              /\ Attempts(h, h.trace[Len(h.trace)]) = 1
    /\ Cardinality({i \in Starts : handlers[i].pc = "done"
                                     /\ handlers[i].response.ok})
           = Len(sessions)
    /\ \A i, j \in Starts :
         (i # j /\ handlers[i].request = handlers[j].request) =>
             SessionsOf(i) \cap SessionsOf(j) = {}

\* a handler that has returned makes no step, and so no call, any more
NoCallAfterReturn ==
    \A i \in 1..Len(handlers) :
        handlers[i].pc = "done" => handlers'[i] = handlers[i]

\* C17: a handler makes each of its external calls at most once (one start
\* of a session; one fetch of the result; one fetch and one delivery POST),
\* a handler whose call failed has returned with that call as its last and
\* only attempt, a handler that has returned does nothing more, and every
\* start request that succeeded has its own session, also when two requests
\* are identical.
C17_AtMostOneAttempt == []AtMostOnce /\ [][NoCallAfterReturn]_vars

\* two identical start requests with a session each, and a third whose
\* start call failed
C17_Witness ==
    /\ Len(sessions) = 2
    /\ \E i, j \in Starts :
         /\ i # j
         /\ handlers[i].request = handlers[j].request
         /\ SessionsOf(i) # {}
         /\ SessionsOf(j) # {}
         /\ SessionsOf(i) # SessionsOf(j)
    /\ \E i \in Starts : /\ CallFailed(handlers[i])
                         /\ handlers[i].trace = <<"map_attributes", "start">>

\* the segment that holds the URL of a return handler
UrlSegment(h) ==
    IF h.handler = "decorated_continue"
    THEN h.args.continuation ELSE h.args.attr_url

\* the decode error of a request: that of the URL segment (base64, then
\* UTF-8) before that of the attribute segment (base64, then JSON)
DecodeFailure(h) ==
    LET u == DecodedUrls[UrlSegment(h)]
        a == DecodedAttributes[h.args.attributes]
    IN  IF ~u.ok THEN Some(u.err.kind)
        ELSE IF ~a.ok THEN Some(a.err.kind)
        ELSE None

\* C18: a decorated_continue or session_complete request with a segment
\* that is no URL-safe base64, a URL that is no UTF-8 or an attribute
\* segment that is no JSON array of strings ends at once with the error of
\* that decoding step: nothing was fetched, sealed, redirected or POSTed, and
\* the handler holds no decoded or default value; a request that went on
\* holds the values that were decoded.
C18_DecodeErrorsAreFatal ==
    \A i \in ReturnHandlers :
        LET h == handlers[i]
            failure == DecodeFailure(h)
        IN  IF failure.some
            THEN /\ h.pc = "done"
                 /\ h.response = Err([kind |-> failure.v])
                 /\ h.trace = <<"decode">>
                 /\ DOMAIN h \cap {"fetched", "sealing", "post", "logged",
                                   "attributes", "continuation", "attr_url"}
                        = {}
                 /\ SealedBy(h) = {}
            ELSE /\ Len(h.trace) > 1 => "fetched" \in DOMAIN h \/ CallFailed(h)
                 /\ Ok(h.attributes) = DecodedAttributes[h.args.attributes]
                 /\ h.handler = "decorated_continue" =>
                        Ok(h.continuation) = DecodedUrls[h.args.continuation]
                 /\ h.handler = "session_complete" =>
                        Ok(h.attr_url) = DecodedUrls[h.args.attr_url]

\* two requests on the callback URL of one session: one whose delivery URL
\* is no UTF-8, one whose attribute segment is an array of numbers
C18_Witness ==
    \E i, k \in SessionCompletes :
        /\ handlers[i].pc = "done"
        /\ handlers[i].args.attr_url = BadUtf8
        /\ handlers[i].response = Err(Utf8Error)
        /\ handlers[k].pc = "done"
        /\ handlers[k].args.attributes = BadJson
        /\ handlers[k].response = Err(JsonError)

\* the first step of every return request that can arrive, token and
\* sender left open
Arrived ==
    [handler \in {"decorated_continue", "session_complete"},
     attributes \in AttributeSegments, url \in UrlSegments |->
        IF handler = "decorated_continue"
        THEN DecoratedContinue(0, attributes, url, FALSE)
        ELSE SessionComplete(0, attributes, url, FALSE)]

\* the record of handler i when its request is handled alone, from its own
\* arguments and the answers the external servers gave to it
Alone(i) ==
    LET h == handlers[i] IN
    IF h.handler = "start_authentication"
    THEN LET h0 == IF h.request.attr_url.some
                   THEN StartOob(h.request, h.request.attr_url.v)
                   ELSE StartIb(h.request)
         IN  IF h0.pc = "done" \/ h.pc = "start_session" THEN h0
             ELSE [handler |-> h0.handler, request |-> h0.request,
                   pc |-> "done", trace |-> Append(h0.trace, "start"),
                   response |->
                       IF SessionsOf(i) # {}
                       THEN Ok([client_url |->
                                  ClientUrl(h0, CHOOSE t \in SessionsOf(i) :
                                                    TRUE)])
                       ELSE Err(ErrIrma(Reqwest))]
    ELSE LET h0 == [Arrived[h.handler, h.args.attributes, UrlSegment(h)]
                       EXCEPT !.args.token = h.args.token,
                              !.sent_by_bridge = h.sent_by_bridge]
         IN  IF h0.pc = "done" \/ h.pc = "get_result" THEN h0
             ELSE IF "fetched" \notin DOMAIN h
                  THEN Finished(h0, <<"get_result">>, Err(ErrIrma(Reqwest)))
             ELSE LET fault == IF "sealing" \in DOMAIN h
                               THEN h.sealing ELSE "none"
                      r == IF h.handler = "decorated_continue"
                           THEN DecoratedContinueResult(h0, h.fetched, fault)
                           ELSE SessionCompleteResult(h0, h.fetched, fault)
                  IN  IF r.pc = "done" \/ h.pc = "post" THEN r
                      ELSE Finished(r, <<>>, Ok(Unit))
                           @@ [logged |-> h.logged]

\* every handler is where, and has answered what, it would alone
OutcomeAsAlone == \A i \in 1..Len(handlers) : handlers[i] = Alone(i)

\* a step leaves the configuration as it is, moves or adds one handler and
\* leaves every other handler and every session as they are
OneRequestPerStep ==
    /\ config' = config
    /\ Len(handlers') >= Len(handlers)
    /\ Len(sessions') >= Len(sessions)
    /\ \A t \in 1..Len(sessions) : sessions'[t] = sessions[t]
    /\ \A i, j \in 1..Len(handlers) :
         (i # j /\ handlers'[i] # handlers[i]) => handlers'[j] = handlers[j]

SealingFailed(h) == "sealing" \in DOMAIN h /\ h.sealing # "none"

\* C21: a handler in which signing or encryption failed has returned the
\* packager's error, which holds no token, with the sealing as its last
\* step: it has issued no redirect and sent no delivery POST, so no signed
\* but unencrypted token and no part of one has left it.
C21_SealingFailureIsFatal ==
    \A i \in ReturnHandlers :
        LET h == handlers[i] IN
        SealingFailed(h) =>
            /\ h.pc = "done"
            /\ h.response = Err(ErrJwt)
            /\ DOMAIN h.response = {"ok", "err"}
            /\ DOMAIN h.response.err = {"kind"}
            /\ h.trace = <<"decode", "get_result", "map_response",
                           "sign_and_encrypt">>
            /\ "post" \notin DOMAIN h
            /\ SealedBy(h) = {}
            /\ ChecksPass(h)

\* the same return twice, signing failed in one and encryption in the other
C21_Witness ==
    \E i, j \in DecoratedContinues :
        /\ handlers[i].args = handlers[j].args
        /\ SealingFailed(handlers[i])
        /\ handlers[i].sealing = "sign"
        /\ SealingFailed(handlers[j])
        /\ handlers[j].sealing = "encrypt"
        /\ handlers[j].response = Err(ErrJwt)

\* C23: every decorated_continue request that ends in a redirect, whoever
\* put its token and its path segments together, has validated against the
\* attribute list and redirects to the continuation that were given to the
\* start_authentication request which started the session of the token.
C23_ReturnBoundToSession ==
    \A i \in DecoratedContinues :
        LET h == handlers[i] IN
        (h.pc = "done" /\ h.response.ok) =>
            LET origin == Origin(h.args.token) IN
            /\ h.attributes = origin.attributes
            /\ h.response.val.redirect.url = origin.continuation

-----------------------------------------------------------------------------
(* Further properties of the cross-check and of the mapper, over SpecFn.   *)

C19_NonEmptyDisjunctions ==
    (call.fn = "map_attributes" /\ call.result.ok) =>
        \A i \in 1..Len(call.attributes) :
            /\ Len(call.result.val[i]) >= 1
            /\ config[call.attributes[i]] # <<>>

\* the check that fails for one position, by the order of the checks within
\* a position: one attribute, a configured name, an allowed identifier
PositionError(name, group) ==
    IF Len(group) # 1
    THEN Some(InvalidResponse(
                  "Incorrect number of attributes in inner conjunction"))
    ELSE IF name \notin DOMAIN config THEN Some(UnknownAttribute(name))
    ELSE IF ~Contains(config[name], group[1].identifier)
         THEN Some(InvalidResponse("Incorrect attribute in inner conjunction"))
    ELSE None

\* the positions of a response, of as many groups as names, that fail a check
FailingPositions(attributes, disclosed) ==
    {i \in 1..Len(attributes) :
        PositionError(attributes[i], disclosed[i]).some}

Lowest(positions) == CHOOSE i \in positions : \A j \in positions : i <= j

\* C22: map_response fails with NotMatching whenever the counts differ,
\* whatever the groups hold; with equal counts it fails with the error of the
\* lowest position that fails a check, that error being the one of the first
\* failing check of the position (one attribute, then a configured name,
\* then an allowed identifier); it succeeds only when no position fails.
C22_FirstFailingCheck ==
    call.fn = "map_response" =>
        IF Len(call.attributes) # Len(call.response.disclosed)
        THEN call.result =
                 Err(NotMatching("mismatch between request and response"))
        ELSE LET failing == FailingPositions(call.attributes,
                                             call.response.disclosed)
             IN  IF failing = {} THEN call.result.ok
                 ELSE LET i == Lowest(failing) IN
                      call.result =
                          Err(PositionError(call.attributes[i],
                                            call.response.disclosed[i]).v)

\* an unmapped name with a group of two at position 1, where the count of
\* the group decides, and a disallowed identifier at position 2
C22_Witness ==
    /\ call.fn = "map_response"
    /\ call.attributes = <<Unmapped, Email>>
    /\ Len(call.response.disclosed) = 2
    /\ Len(call.response.disclosed[1]) = 2
    /\ Len(call.response.disclosed[2]) = 1
    /\ call.response.disclosed[2][1].identifier = IdPhone
    /\ FailingPositions(call.attributes, call.response.disclosed) = {1, 2}
    /\ call.result.err.kind = "InvalidResponse"
    /\ call.result.err.desc =
           "Incorrect number of attributes in inner conjunction"

====
